---- MODULE Spec2Model ----
(***************************************************************************)
(* A model of api/index.py: the process-wide response cache (CACHE,        *)
(* cache_key_generator, get_from_cache, set_cache), and the Flask handlers *)
(* that sit behind it.                                                      *)
(*                                                                          *)
(* Strings are sequences of one-character strings, so that joining,        *)
(* splitting and parsing are computed as the code computes them.           *)
(* CACHE is a sequence of entries in insertion order: a Python dict        *)
(* iterates in insertion order, an overwritten key keeps its place, and    *)
(* min() returns the first minimal element it meets.                       *)
(***************************************************************************)
EXTENDS Integers, Sequences, FiniteSets, TLC

\* index.py:18 sets 3600 and index.py:19 sets 100; the model keeps the
\* comparisons of the code and scales both numbers down.
CACHE_TTL == 2
CACHE_MAX_SIZE == 2

\* time.time() is read as the integer clock `now`, which never runs
\* backwards; it advances up to MaxTime while the cache functions are called
\* directly, and up to MaxClock while the workers handle requests.
MaxTime == 3
MaxClock == 2

\* the longest parameter string the key derivation is tried on
MaxPartLen == 2

VARIABLES
    CACHE,      \* index.py:17, the dict as a sequence of [key, data, timestamp]
    now,        \* the value time.time() returns
    last,       \* history: the direct call of a cache function made at this
                \* instant, if the latest step was one, with the key set_cache
                \* deleted and that entry's timestamp
    puts,       \* history: per key, the latest set_cache(key, v) and its time,
                \* forgotten once that entry is evicted or cleared
    run,        \* history: the keys put so far while only distinct puts happened
    calls,      \* two calls of cache_key_generator: their argument tuples
    digests,    \* the key strings and keys the two calls produced, once made
    rankings,       \* index.py:51, the mens ranking file
    wwp_rankings,   \* index.py:54, the womens ranking file
    pc,         \* per worker: the line of the handler it is about to execute
    req,        \* per worker: the request it handles, or handled last
    loc,        \* per worker: the locals of the handler and of the cache functions
    resp        \* per worker: the response to its latest finished request

storeHist == <<last, puts, run>>
keyVars == <<calls, digests>>
files == <<rankings, wwp_rankings>>
procs == <<pc, req, loc, resp>>

vars == <<CACHE, now, last, puts, run, calls, digests,
          rankings, wwp_rankings, pc, req, loc, resp>>

\* Python's None, in the shape of a payload (payloads are records).
None == [none |-> TRUE]

(***************************************************************************)
(* Strings.                                                                *)
(***************************************************************************)
RECURSIVE Join(_, _)
\* `sep.join(parts)`
Join(parts, sep) ==
    IF Len(parts) = 0 THEN <<>>
    ELSE IF Len(parts) = 1 THEN parts[1]
    ELSE parts[1] \o sep \o Join(Tail(parts), sep)

RECURSIVE Split(_, _)
\* `s.split(ch)` for a one-character separator: never an empty list
Split(s, ch) ==
    LET at == {i \in 1..Len(s) : s[i] = ch}
    IN  IF at = {} THEN <<s>>
        ELSE LET i == CHOOSE i \in at : \A j \in at : i <= j
             IN  <<SubSeq(s, 1, i - 1)>> \o Split(SubSeq(s, i + 1, Len(s)), ch)

\* `s.strip()`: the model's only whitespace character is the space
Strip(s) ==
    LET ink == {i \in 1..Len(s) : s[i] # " "}
    IN  IF ink = {} THEN <<>>
        ELSE SubSeq(s, CHOOSE i \in ink : \A j \in ink : i <= j,
                       CHOOSE i \in ink : \A j \in ink : i >= j)

\* the characters of the model in code-point order, for comparing strings
Alphabet ==
    <<" ", ",", "-", "/", "0", "1", "2", "3", "4", "5", "6", "7", "8", "9",
      "A", "B", "C", "W", "P", "_", "a", "c", "e", "g", "h", "i", "k", "m",
      "n", "r", "s", "t", "v", "x">>

Code(ch) == CHOOSE i \in 1..Len(Alphabet) : Alphabet[i] = ch

RECURSIVE StrLess(_, _)
\* `a < b` on strings
StrLess(a, b) ==
    IF Len(b) = 0 THEN FALSE
    ELSE IF Len(a) = 0 THEN TRUE
    ELSE IF a[1] # b[1] THEN Code(a[1]) < Code(b[1])
    ELSE StrLess(Tail(a), Tail(b))

Digits == <<"0", "1", "2", "3", "4", "5", "6", "7", "8", "9">>

IsDigit(ch) == \E i \in 1..10 : Digits[i] = ch

DigitVal(ch) == (CHOOSE i \in 1..10 : Digits[i] = ch) - 1

AllDigits(s) == \A i \in 1..Len(s) : IsDigit(s[i])

RECURSIVE NatOf(_)
\* the number a string of digits writes
NatOf(ds) ==
    IF Len(ds) = 0 THEN 0
    ELSE NatOf(SubSeq(ds, 1, Len(ds) - 1)) * 10 + DigitVal(ds[Len(ds)])

RECURSIVE NatToStr(_)
NatToStr(n) ==
    IF n < 10 THEN <<Digits[n + 1]>>
    ELSE NatToStr(n \div 10) \o <<Digits[(n % 10) + 1]>>

\* `str(n)`, as the f-string at index.py:142 formats an int
IntToStr(n) == IF n < 0 THEN <<"-">> \o NatToStr(0 - n) ELSE NatToStr(n)

\* `int(s)`: surrounding whitespace, an optional sign, then digits with
\* single underscores allowed between digits; anything else is a ValueError
ParseInt(s) ==
    LET t == Strip(s)
        signed == Len(t) > 0 /\ t[1] \in {"+", "-"}
        body == IF signed THEN Tail(t) ELSE t
        ok == /\ Len(body) > 0
              /\ \A i \in 1..Len(body) : IsDigit(body[i]) \/ body[i] = "_"
              /\ IsDigit(body[1]) /\ IsDigit(body[Len(body)])
              /\ \A i \in 1..(Len(body) - 1) : ~(body[i] = "_" /\ body[i + 1] = "_")
        n == NatOf(SelectSeq(body, IsDigit))
    IN  IF ok THEN [ok |-> TRUE, val |-> IF signed /\ t[1] = "-" THEN 0 - n ELSE n]
        ELSE [ok |-> FALSE, val |-> 0]

(***************************************************************************)
(* Dates: datetime.strptime and strftime.                                  *)
(***************************************************************************)
\* the strings the directives %Y, %m and %d match
YearField(f) == Len(f) = 4 /\ AllDigits(f)

MonthField(f) ==
    \/ Len(f) = 1 /\ AllDigits(f) /\ NatOf(f) \in 1..9
    \/ Len(f) = 2 /\ AllDigits(f) /\ NatOf(f) \in 1..12

DayField(f) ==
    \/ Len(f) = 1 /\ AllDigits(f) /\ NatOf(f) \in 1..9
    \/ Len(f) = 2 /\ AllDigits(f) /\ NatOf(f) \in 1..31
    \/ Len(f) = 2 /\ f[1] = " " /\ IsDigit(f[2]) /\ DigitVal(f[2]) \in 1..9

IsLeap(y) == (y % 4 = 0 /\ y % 100 # 0) \/ y % 400 = 0

DaysIn(y, m) ==
    IF m = 2 THEN (IF IsLeap(y) THEN 29 ELSE 28)
    ELSE IF m \in {4, 6, 9, 11} THEN 30 ELSE 31

NoDate == [ok |-> FALSE, y |-> 0, m |-> 0, d |-> 0]

\* the datetime built from matched fields; datetime() rejects year 0 and a
\* day the month does not have
MakeDate(yf, mf, df) ==
    IF YearField(yf) /\ MonthField(mf) /\ DayField(df)
    THEN LET y == NatOf(yf)
             m == NatOf(mf)
             d == NatOf(Strip(df))
         IN  IF y >= 1 /\ d <= DaysIn(y, m)
             THEN [ok |-> TRUE, y |-> y, m |-> m, d |-> d]
             ELSE NoDate
    ELSE NoDate

\* `datetime.strptime(s, "%Y-%m-%d")`; ok = FALSE stands for the ValueError
strptime_ymd(s) ==
    LET f == Split(s, "-")
    IN  IF Len(f) = 3 THEN MakeDate(f[1], f[2], f[3]) ELSE NoDate

\* `datetime.strptime(s, "%m/%d/%Y")`
strptime_mdy(s) ==
    LET f == Split(s, "/")
    IN  IF Len(f) = 3 THEN MakeDate(f[3], f[1], f[2]) ELSE NoDate

\* the order of datetimes (all at midnight)
Ordinal(dt) == dt.y * 10000 + dt.m * 100 + dt.d

Pad(n, width) ==
    LET t == NatToStr(n)
    IN  [i \in 1..(width - Len(t)) |-> "0"] \o t

\* `dt.strftime("%Y-%m-%d")`, for years of four digits
strftime_ymd(dt) == Pad(dt.y, 4) \o <<"-">> \o Pad(dt.m, 2) \o <<"-">> \o Pad(dt.d, 2)

\* index.py:59, `"_".join(str(arg) for arg in args)`: the arguments are
\* strings already, so str() leaves them as they are
key_string(args) == Join(args, <<"_">>)

\* index.py:60, hashlib.md5(...).hexdigest(): the digest is taken as
\* collision-free, so a digest stands for exactly one hashed string
md5(s) == [md5 |-> s]

cache_key_generator(args) == md5(key_string(args))

\* the first argument of each handler's call of cache_key_generator
NsMatrix == <<"m","a","t","r","i","x">>
NsMatches == <<"m","a","t","c","h","e","s">>
NsRankings == <<"r","a","n","k","i","n","g","s">>
NsWWPMatrix == <<"W","W","P">> \o NsMatrix
NsWWPMatches == <<"W","W","P">> \o NsMatches
NsWWPRankings == <<"W","W","P","a","n","k","i","n","g","s">>

(***************************************************************************)
(* The dict operations the cache functions use.                            *)
(***************************************************************************)
Keys(c) == {c[i].key : i \in 1..Len(c)}

\* `key in CACHE`
Has(c, key) == key \in Keys(c)

IndexOf(c, key) == CHOOSE i \in 1..Len(c) : c[i].key = key

\* `CACHE[key]` for a key that is present
Lookup(c, key) == c[IndexOf(c, key)]

\* a deletion that leaves the dict as it is
DelNothing(c, key) == c

\* `del CACHE[key]` for a key that is present
Del(c, key) == SelectSeq(c, LAMBDA e : e.key # key)

\* `CACHE[key] = (data, time.time())`: an existing key keeps its position
Store(c, key, data, t) ==
    LET e == [key |-> key, data |-> data, timestamp |-> t]
    IN  IF Has(c, key) THEN [c EXCEPT ![IndexOf(c, key)] = e] ELSE Append(c, e)

\* a comparison that still serves an entry whose age equals the TTL
FreshInclusive(timestamp, t) == t - timestamp <= CACHE_TTL

\* `time.time() - timestamp < CACHE_TTL`
Fresh(timestamp, t) == t - timestamp < CACHE_TTL

\* a size check that is off by one
IsFullStrict(c) == Len(c) > CACHE_MAX_SIZE

\* `len(CACHE) >= CACHE_MAX_SIZE`
IsFull(c) == Len(c) >= CACHE_MAX_SIZE

\* a selection that takes the youngest entry
newest_key(c) ==
    LET i == CHOOSE i \in 1..Len(c) :
                 \A j \in 1..Len(c) :
                     \/ c[j].timestamp < c[i].timestamp
                     \/ (c[j].timestamp = c[i].timestamp /\ j >= i)
    IN  c[i].key

\* a selection that takes the last minimal key instead of the first
oldest_key_last(c) ==
    LET i == CHOOSE i \in 1..Len(c) :
                 \A j \in 1..Len(c) :
                     \/ c[j].timestamp > c[i].timestamp
                     \/ (c[j].timestamp = c[i].timestamp /\ j <= i)
    IN  c[i].key

\* `min(CACHE.keys(), key=lambda k: CACHE[k][1])`: the first key, in
\* iteration order, whose timestamp is minimal (c is not empty)
oldest_key(c) ==
    LET i == CHOOSE i \in 1..Len(c) :
                 \A j \in 1..Len(c) :
                     \/ c[j].timestamp > c[i].timestamp
                     \/ (c[j].timestamp = c[i].timestamp /\ j >= i)
    IN  c[i].key

\* a lookup that restamps the entry it serves, as an access-order LRU would
get_from_cache_touch(c, key, t) ==
    IF Has(c, key)
    THEN LET e == Lookup(c, key)
         IN  IF Fresh(e.timestamp, t)
             THEN [ret |-> e.data, cache |-> Store(c, key, e.data, t)]
             ELSE [ret |-> None, cache |-> Del(c, key)]
    ELSE [ret |-> None, cache |-> c]

\* get_from_cache called at time t: what it returns and the dict it leaves
get_from_cache(c, key, t) ==
    IF Has(c, key)
    THEN LET e == Lookup(c, key)
         IN  IF Fresh(e.timestamp, t)
             THEN [ret |-> e.data, cache |-> c]
             ELSE [ret |-> None, cache |-> Del(c, key)]
    ELSE [ret |-> None, cache |-> c]

\* the key set_cache deletes at index.py:79, if it deletes one
Victim(c) == IF IsFull(c) THEN <<oldest_key(c)>> ELSE <<>>

\* set_cache called at time t: the dict it leaves
set_cache(c, key, data, t) ==
    LET c1 == IF IsFull(c) THEN Del(c, oldest_key(c)) ELSE c
    IN  Store(c1, key, data, t)

(***************************************************************************)
(* The data the handlers read: the ranking files loaded at start-up and    *)
(* the database collections.  Their contents are inputs of the program.    *)
(***************************************************************************)
TeamA == <<"A">>
TeamB == <<"B">>

Label0105 == <<"0","1","/","0","5","/","2","0","2","3">>
Label0110 == <<"0","1","/","1","0","/","2","0","2","3">>
Label0110b == Label0110 \o <<"-","2">>
LabelBad == <<"x">>

\* groups out of date order, a label with a suffix, a team listed twice on a
\* date, an entry whose team name is the empty string
DatasetA ==
    << [label |-> Label0110,
        list |-> << [team_name |-> TeamB, ranking |-> "1"],
                    [team_name |-> TeamA, ranking |-> "2"] >>],
       [label |-> Label0105,
        list |-> << [team_name |-> TeamA, ranking |-> "1"],
                    [team_name |-> TeamB, ranking |-> "unranked"],
                    [team_name |-> <<>>, ranking |-> "4"] >>],
       [label |-> Label0110b,
        list |-> << [team_name |-> TeamA, ranking |-> "3"] >>] >>

DatasetB ==
    << [label |-> Label0105, list |-> << [team_name |-> TeamA, ranking |-> "1"] >>],
       [label |-> Label0110, list |-> << [team_name |-> TeamB, ranking |-> "2"] >>] >>

\* a group whose label is no date
DatasetC ==
    << [label |-> Label0105, list |-> << [team_name |-> TeamA, ranking |-> "1"] >>],
       [label |-> LabelBad, list |-> << [team_name |-> TeamA, ranking |-> "2"] >>] >>

\* the pairs (mens file, womens file) a run may start with
RankingFiles == {<<DatasetA, DatasetC>>, <<DatasetB, DatasetA>>}

\* the single aggregate document of each matches collection
matches_col == << (<<"2","_","8">> :> <<"g1", "g2">>) @@ (<<"0","_","0">> :> <<>>) >>
wwp_matches_col == << (<<"8","_","2">> :> <<"g3">>) >>

\* the rows of the Probabilities and Delim collections
prob_rows == <<"p1", "p2">>
delim_rows == <<"d1">>
wwp_prob_rows == <<"q1">>
wwp_delim_rows == <<>>

Unranked == <<"u","n","r","a","n","k","e","d">>
RANK_ORDER == [i \in 1..20 |-> IntToStr(i)] \o <<Unranked>>
WWP_RANK_ORDER == [i \in 1..25 |-> IntToStr(i)] \o <<Unranked>>

(***************************************************************************)
(* What the handlers compute on a cache miss.  A result is the payload     *)
(* (result_data), or the exception that ends the try block.                *)
(***************************************************************************)
Success(data) == [ok |-> TRUE, data |-> data, error |-> [exc |-> "", line |-> 0]]
Raise(exc, line) == [ok |-> FALSE, data |-> None, error |-> [exc |-> exc, line |-> line]]

\* index.py:185
team_list_of(team_names) ==
    LET parts == Split(team_names, ",")
    IN  [i \in 1..Len(parts) |-> Strip(parts[i])]

\* a range test that leaves the start date out
InRangeOpen(start_dt, current_date, end_dt) ==
    Ordinal(start_dt) < Ordinal(current_date) /\ Ordinal(current_date) <= Ordinal(end_dt)

\* index.py:193, `start_dt <= current_date <= end_dt`
InRange(start_dt, current_date, end_dt) ==
    Ordinal(start_dt) <= Ordinal(current_date) /\ Ordinal(current_date) <= Ordinal(end_dt)

\* index.py:194-200: the rows one group appends
GroupRows(ranking_list, current_date, team_list) ==
    LET sel == SelectSeq(ranking_list,
                         LAMBDA team : \E i \in 1..Len(team_list) :
                                          team_list[i] = team.team_name)
    IN  [i \in 1..Len(sel) |->
            [team_name |-> sel[i].team_name,
             date |-> strftime_ymd(current_date),
             rank |-> sel[i].ranking]]

RECURSIVE History(_, _, _, _)
\* index.py:187-200: the loop over the groups, in the file's order; a label
\* that does not parse raises out of the loop
History(groups, team_list, start_dt, end_dt) ==
    IF Len(groups) = 0 THEN [ok |-> TRUE, rows |-> <<>>]
    ELSE LET g == Head(groups)
             current_date == strptime_mdy(Split(g.label, "-")[1])
         IN  IF ~current_date.ok THEN [ok |-> FALSE, rows |-> <<>>]
             ELSE LET rest == History(Tail(groups), team_list, start_dt, end_dt)
                      here == IF InRange(start_dt, current_date, end_dt)
                              THEN GroupRows(g.list, current_date, team_list)
                              ELSE <<>>
                  IN  IF rest.ok THEN [ok |-> TRUE, rows |-> here \o rest.rows]
                      ELSE rest

\* a comparison that puts a row before the rows it ties with
KeyLT(a, b) ==
    \/ StrLess(a.date, b.date)
    \/ a.date = b.date /\ StrLess(a.team_name, b.team_name)

\* the sort key (x['date'], x['team_name']) of a precedes or equals that of b
KeyLE(a, b) ==
    \/ StrLess(a.date, b.date)
    \/ a.date = b.date /\ ~StrLess(b.team_name, a.team_name)

RECURSIVE SortRows(_)
\* index.py:203, list.sort with a key: stable
SortRows(rows) ==
    IF Len(rows) <= 1 THEN rows
    ELSE LET x == rows[Len(rows)]
             done == SortRows(SubSeq(rows, 1, Len(rows) - 1))
             n == Cardinality({i \in 1..Len(done) : KeyLE(done[i], x)})
         IN  SubSeq(done, 1, n) \o <<x>> \o SubSeq(done, n + 1, Len(done))

\* index.py:180-213 (and 319-352)
team_ranking_history(dataset, team_names, start_date, end_date) ==
    LET start_dt == strptime_ymd(start_date)
        end_dt == strptime_ymd(end_date)
        team_list == team_list_of(team_names)
        history == History(dataset, team_list, start_dt, end_dt)
    IN  IF ~start_dt.ok THEN Raise("ValueError", 181)
        ELSE IF ~end_dt.ok THEN Raise("ValueError", 182)
        ELSE IF ~history.ok THEN Raise("ValueError", 190)
        ELSE Success([data |-> SortRows(history.rows),
                      count |-> Len(history.rows),
                      teams |-> team_list,
                      date_range |-> [start |-> start_date, end |-> end_date]])

\* a composite key in the mirrored order
composite_key_mirrored(r, c) == IntToStr(c - 1) \o <<"_">> \o IntToStr(r - 1)

\* index.py:142, the composite key
composite_key(r, c) == IntToStr(r - 1) \o <<"_">> \o IntToStr(c - 1)

\* index.py:140-153 (and 279-292); db_ok = FALSE is a failing find()
matches(collection, row_rank, col_rank, db_ok) ==
    LET r == ParseInt(row_rank)
        c == ParseInt(col_rank)
        key1 == composite_key(r.val, c.val)
    IN  IF ~r.ok \/ ~c.ok THEN Raise("ValueError", 142)
        ELSE IF ~db_ok THEN Raise("PyMongoError", 146)
        ELSE IF Len(collection) = 0 THEN Raise("IndexError", 146)
        ELSE IF key1 \notin DOMAIN collection[1] THEN Raise("KeyError", 146)
        ELSE LET games == collection[1][key1]
             IN  Success([matches |-> games, count |-> Len(games),
                          row_rank |-> row_rank, col_rank |-> col_rank])

\* index.py:103-112 (and 242-251)
matrix(delim_data, prob_data, headers, db_ok) ==
    IF ~db_ok THEN Raise("PyMongoError", 103)
    ELSE Success([headers |-> headers, probData |-> prob_data,
                  delimData |-> delim_data])

(***************************************************************************)
(* Requests, workers and responses.                                        *)
(***************************************************************************)
Workers == {1, 2}

NoRequest == [ep |-> "none", sport |-> "", args |-> <<>>]

\* cache_key: the handler's key; entry: the (data, timestamp) read at
\* index.py:65; result_data: the computed payload; oldest: oldest_key of
\* set_cache; wrote: whether this request has executed index.py:81
NoLocals == [cache_key |-> md5(<<>>), entry |-> [data |-> None, timestamp |-> 0],
             result_data |-> None, oldest |-> md5(<<>>), wrote |-> FALSE]

NoResponse == [status |-> 0, body |-> None, cache_headers |-> FALSE]

\* `add_cache_headers(make_response(jsonify(data))), 200`
Cached200(data) == [status |-> 200, body |-> data, cache_headers |-> TRUE]

\* `jsonify(...), 200` of the handlers that do not call add_cache_headers
Plain200(data) == [status |-> 200, body |-> data, cache_headers |-> FALSE]

\* the except branch: `jsonify({"error": str(e)}), 500`
Error500(error) == [status |-> 500, body |-> [error |-> error], cache_headers |-> FALSE]

\* the arguments a handler passes to cache_key_generator
KeyArgs(r) ==
    LET mwp == r.sport = "MWP"
    IN  CASE r.ep = "matrix" ->
                 <<IF mwp THEN NsMatrix ELSE NsWWPMatrix, <<"v","1">>>>
          [] r.ep = "matches" ->
                 <<IF mwp THEN NsMatches ELSE NsWWPMatches>> \o r.args
          [] r.ep = "rankings" ->
                 <<IF mwp THEN NsRankings ELSE NsWWPRankings>> \o r.args

\* the try block of a handler after a cache miss, on the given files
Compute(r, mens, womens, db_ok) ==
    LET mwp == r.sport = "MWP"
    IN  CASE r.ep = "matrix" ->
                 IF mwp THEN matrix(delim_rows, prob_rows, RANK_ORDER, db_ok)
                 ELSE matrix(wwp_delim_rows, wwp_prob_rows, WWP_RANK_ORDER, db_ok)
          [] r.ep = "matches" ->
                 matches(IF mwp THEN matches_col ELSE wwp_matches_col,
                         r.args[1], r.args[2], db_ok)
          [] r.ep = "rankings" ->
                 team_ranking_history(IF mwp THEN mens ELSE womens,
                                      r.args[1], r.args[2], r.args[3])

\* a test that takes every cached payload for a miss
NeverTruthy(data) == FALSE

\* `if cached_data:` a payload is a dict with keys, so only None is falsy
Truthy(data) == data # None

\* index.py:378, scaled with CACHE_MAX_SIZE
KeyListLimit == 2

\* index.py:374-379
cache_stats(c) ==
    [cache_size |-> Len(c),
     max_cache_size |-> CACHE_MAX_SIZE,
     cache_ttl_seconds |-> CACHE_TTL,
     cached_keys |-> IF Len(c) < KeyListLimit
                     THEN [kind |-> "list", keys |-> [i \in 1..Len(c) |-> c[i].key]]
                     ELSE [kind |-> "text", keys |-> <<>>]]

\* the keys and values of the direct calls of SpecStore
StoreKeys == {<<"a">>, <<"b">>, <<"c">>}
StoreVals == {[v |-> 1], [v |-> 2]}

NoPut == [set |-> FALSE, v |-> None, T |-> 0]
NoCall == [op |-> "none", key |-> <<>>, val |-> None, ret |-> None,
           victim |-> <<>>, victim_at |-> <<>>]

Dirty == [clean |-> FALSE, keys |-> <<>>]

\* the process right after start-up: an empty cache, every worker idle
InitProcess ==
    /\ CACHE = <<>>
    /\ now = 0
    /\ last = NoCall
    /\ puts = [k \in StoreKeys |-> NoPut]
    /\ run = [clean |-> TRUE, keys |-> <<>>]
    /\ digests = <<>>
    /\ pc = [w \in Workers |-> "idle"]
    /\ req = [w \in Workers |-> NoRequest]
    /\ loc = [w \in Workers |-> NoLocals]
    /\ resp = [w \in Workers |-> NoResponse]

\* time.time() moves on
Advance(limit) ==
    /\ now < limit
    /\ now' = now + 1
    /\ last' = NoCall
    /\ UNCHANGED <<CACHE, puts, run, keyVars, files, procs>>

Tick == Advance(MaxTime)

ClockTick == Advance(MaxClock)

(***************************************************************************)
(* The handlers, one action per line that reads or writes shared state.    *)
(* Between two such lines any other worker may run.                        *)
(***************************************************************************)
Cacheable == {"matrix", "matches", "rankings"}

\* a worker ends its request with this response
Finish(w, response) ==
    /\ resp' = [resp EXCEPT ![w] = response]
    /\ pc' = [pc EXCEPT ![w] = "idle"]
    /\ loc' = [loc EXCEPT ![w] = [NoLocals EXCEPT !.wrote = loc[w].wrote]]

Goto(w, label) == pc' = [pc EXCEPT ![w] = label]

\* a cached handler is entered: index.py:94, 130, 170 (233, 269, 309)
Start(w, r) ==
    /\ pc[w] = "idle"
    /\ r.ep \in Cacheable
    /\ req' = [req EXCEPT ![w] = r]
    /\ loc' = [loc EXCEPT ![w] = [NoLocals EXCEPT !.cache_key = cache_key_generator(KeyArgs(r))]]
    /\ resp' = [resp EXCEPT ![w] = NoResponse]
    /\ Goto(w, "get_in")
    /\ UNCHANGED <<CACHE, now, storeHist, keyVars, files>>

\* index.py:64, `if key in CACHE`
GetIn(w) ==
    /\ pc[w] = "get_in"
    /\ Goto(w, IF Has(CACHE, loc[w].cache_key) THEN "get_read" ELSE "compute")
    /\ UNCHANGED <<CACHE, now, storeHist, keyVars, files, req, loc, resp>>

\* index.py:65, `data, timestamp = CACHE[key]`
GetRead(w) ==
    /\ pc[w] = "get_read"
    /\ IF Has(CACHE, loc[w].cache_key)
       THEN /\ loc' = [loc EXCEPT ![w].entry =
                           [data |-> Lookup(CACHE, loc[w].cache_key).data,
                            timestamp |-> Lookup(CACHE, loc[w].cache_key).timestamp]]
            /\ Goto(w, "get_ttl")
            /\ UNCHANGED resp
       ELSE Finish(w, Error500([exc |-> "KeyError", line |-> 65]))
    /\ UNCHANGED <<CACHE, now, storeHist, keyVars, files, req>>

\* index.py:66-67 and the handler's `if cached_data:` with its return
GetTtl(w) ==
    /\ pc[w] = "get_ttl"
    /\ IF Fresh(loc[w].entry.timestamp, now) /\ Truthy(loc[w].entry.data)
       THEN Finish(w, Cached200(loc[w].entry.data))
       ELSE /\ Goto(w, IF Fresh(loc[w].entry.timestamp, now) THEN "compute" ELSE "get_del")
            /\ UNCHANGED <<loc, resp>>
    /\ UNCHANGED <<CACHE, now, storeHist, keyVars, files, req>>

\* index.py:70, `del CACHE[key]`
GetDel(w) ==
    /\ pc[w] = "get_del"
    /\ IF Has(CACHE, loc[w].cache_key)
       THEN /\ CACHE' = Del(CACHE, loc[w].cache_key)
            /\ Goto(w, "compute")
            /\ UNCHANGED <<loc, resp>>
       ELSE /\ Finish(w, Error500([exc |-> "KeyError", line |-> 70]))
            /\ UNCHANGED CACHE
    /\ UNCHANGED <<now, storeHist, keyVars, files, req>>

\* a handler that jumps on to set_cache although its try block raised
AfterComputeAlwaysStores(result) == "set_len"

\* an exception leaves the try block for the except branch, past set_cache
AfterCompute(result) == IF result.ok THEN "set_len" ELSE "except"

\* the body of the try block between the cache lookup and set_cache
ComputeStep(w) ==
    /\ pc[w] = "compute"
    /\ \E db_ok \in BOOLEAN :
          LET result == Compute(req[w], rankings, wwp_rankings, db_ok)
          IN  IF AfterCompute(result) = "except"
              THEN Finish(w, Error500(result.error))
              ELSE /\ loc' = [loc EXCEPT ![w].result_data =
                                  IF result.ok THEN result.data
                                  ELSE [error |-> result.error]]
                   /\ Goto(w, "set_len")
                   /\ UNCHANGED resp
    /\ UNCHANGED <<CACHE, now, storeHist, keyVars, files, req>>

\* index.py:76, `if len(CACHE) >= CACHE_MAX_SIZE`
SetLen(w) ==
    /\ pc[w] = "set_len"
    /\ Goto(w, IF IsFull(CACHE) THEN "set_min" ELSE "set_put")
    /\ UNCHANGED <<CACHE, now, storeHist, keyVars, files, req, loc, resp>>

\* index.py:78, min() over the keys; min() of an empty dict raises
SetMin(w) ==
    /\ pc[w] = "set_min"
    /\ IF Len(CACHE) > 0
       THEN /\ loc' = [loc EXCEPT ![w].oldest = oldest_key(CACHE)]
            /\ Goto(w, "set_del")
            /\ UNCHANGED resp
       ELSE Finish(w, Error500([exc |-> "ValueError", line |-> 78]))
    /\ UNCHANGED <<CACHE, now, storeHist, keyVars, files, req>>

\* index.py:79, `del CACHE[oldest_key]`
SetDel(w) ==
    /\ pc[w] = "set_del"
    /\ IF Has(CACHE, loc[w].oldest)
       THEN /\ CACHE' = Del(CACHE, loc[w].oldest)
            /\ Goto(w, "set_put")
            /\ UNCHANGED <<loc, resp>>
       ELSE /\ Finish(w, Error500([exc |-> "KeyError", line |-> 79]))
            /\ UNCHANGED CACHE
    /\ UNCHANGED <<now, storeHist, keyVars, files, req>>

\* index.py:81, `CACHE[key] = (data, time.time())`, and the handler's return
SetPut(w) ==
    /\ pc[w] = "set_put"
    /\ CACHE' = Store(CACHE, loc[w].cache_key, loc[w].result_data, now)
    /\ resp' = [resp EXCEPT ![w] = Cached200(loc[w].result_data)]
    /\ pc' = [pc EXCEPT ![w] = "idle"]
    /\ loc' = [loc EXCEPT ![w] = [NoLocals EXCEPT !.wrote = TRUE]]
    /\ UNCHANGED <<now, storeHist, keyVars, files, req>>

\* the handlers without a cache lookup (index.py:366-391), each entered and
\* answered in one step
Admin(w, r) ==
    /\ pc[w] = "idle"
    /\ r.ep \notin Cacheable
    /\ req' = [req EXCEPT ![w] = r]
    /\ loc' = [loc EXCEPT ![w] = NoLocals]
    /\ CASE r.ep = "health" ->
              /\ resp' = [resp EXCEPT ![w] = Plain200([status |-> "healthy"])]
              /\ UNCHANGED CACHE
         [] r.ep = "info" ->
              /\ resp' = [resp EXCEPT ![w] = Plain200(cache_stats(CACHE))]
              /\ UNCHANGED CACHE
         [] r.ep = "clear" ->
              /\ resp' = [resp EXCEPT ![w] = Plain200([removed |-> Len(CACHE), cache_size |-> 0])]
              /\ CACHE' = <<>>
    /\ UNCHANGED <<now, storeHist, keyVars, files, pc>>

HandlerStep(w) ==
    \/ GetIn(w) \/ GetRead(w) \/ GetTtl(w) \/ GetDel(w)
    \/ ComputeStep(w)
    \/ SetLen(w) \/ SetMin(w) \/ SetDel(w) \/ SetPut(w)

D0105 == <<"2","0","2","3","-","0","1","-","0","5">>
D0106 == <<"2","0","2","3","-","0","1","-","0","6">>
D0109 == <<"2","0","2","3","-","0","1","-","0","9">>
D0110 == <<"2","0","2","3","-","0","1","-","1","0">>

Matrix(sport) == [ep |-> "matrix", sport |-> sport, args |-> <<>>]
Matches(sport, row_rank, col_rank) ==
    [ep |-> "matches", sport |-> sport, args |-> <<row_rank, col_rank>>]
Rankings(sport, team_names, start_date, end_date) ==
    [ep |-> "rankings", sport |-> sport, args |-> <<team_names, start_date, end_date>>]
AdminRequest(ep) == [ep |-> ep, sport |-> "", args |-> <<>>]

\* the requests the concurrent workers receive
ConcRequests ==
    { Matrix("MWP"),
      Matches("MWP", <<"3">>, <<"9">>),
      Matches("WWP", <<"9">>, <<"3">>),
      Matches("MWP", <<"9">>, <<"3">>),
      Matches("MWP", <<"x">>, <<"9">>),
      Rankings("MWP", TeamA, <<"x">>, D0110),
      AdminRequest("clear") }

(***************************************************************************)
(* Spec: two workers handle requests concurrently on the shared CACHE.     *)
(***************************************************************************)
Init ==
    /\ InitProcess
    /\ calls = <<>>
    /\ rankings = DatasetB
    /\ wwp_rankings = DatasetB

Next ==
    \/ ClockTick
    \/ \E w \in Workers, r \in ConcRequests : Start(w, r) \/ Admin(w, r)
    \/ \E w \in Workers : HandlerStep(w)

Spec == Init /\ [][Next]_vars

(***************************************************************************)
(* SpecStore: the cache functions called directly, one call at a time, in  *)
(* any order, with the clock advancing between calls.                      *)
(***************************************************************************)
InitStore ==
    /\ InitProcess
    /\ calls = <<>>
    /\ rankings = DatasetB
    /\ wwp_rankings = DatasetB

GetOp(k) ==
    LET r == get_from_cache(CACHE, k, now)
    IN  /\ CACHE' = r.cache
        /\ last' = [op |-> "get", key |-> k, val |-> None, ret |-> r.ret,
                    victim |-> <<>>, victim_at |-> <<>>]
        /\ run' = Dirty
        /\ UNCHANGED <<now, puts, keyVars, files, procs>>

PutOp(k, v) ==
    /\ CACHE' = set_cache(CACHE, k, v, now)
    /\ last' = [op |-> "put", key |-> k, val |-> v, ret |-> None,
                victim |-> Victim(CACHE),
                victim_at |-> IF IsFull(CACHE)
                              THEN <<Lookup(CACHE, oldest_key(CACHE)).timestamp>>
                              ELSE <<>>]
    /\ puts' = [x \in StoreKeys |->
                    IF x = k THEN [set |-> TRUE, v |-> v, T |-> now]
                    ELSE IF Victim(CACHE) = <<x>> THEN NoPut ELSE puts[x]]
    /\ run' = IF run.clean /\ \A i \in 1..Len(run.keys) : run.keys[i] # k
              THEN [run EXCEPT !.keys = Append(run.keys, k)]
              ELSE Dirty
    /\ UNCHANGED <<now, keyVars, files, procs>>

ClearOp ==
    /\ CACHE' = <<>>
    /\ last' = [op |-> "clear", key |-> <<>>, val |-> None, ret |-> None,
                victim |-> <<>>, victim_at |-> <<>>]
    /\ puts' = [k \in StoreKeys |-> NoPut]
    /\ run' = Dirty
    /\ UNCHANGED <<now, keyVars, files, procs>>

NextStore ==
    \/ Tick
    \/ \E k \in StoreKeys : GetOp(k)
    \/ \E k \in StoreKeys, v \in StoreVals : PutOp(k, v)
    \/ ClearOp

SpecStore == InitStore /\ [][NextStore]_vars

(***************************************************************************)
(* SpecKey: cache_key_generator applied to the argument tuples of two      *)
(* requests, drawn from every handler's namespace and from parameter       *)
(* strings that may hold the separator.                                    *)
(***************************************************************************)
PartChars == {"1", "_"}

PartStrings ==
    UNION {[1..n -> PartChars] : n \in 1..MaxPartLen}

\* the argument tuples the handlers pass (index.py:94, 130, 170, 233, 269, 309)
KeyCalls ==
    {<<NsMatrix, <<"v","1">>>>, <<NsWWPMatrix, <<"v","1">>>>}
    \cup {<<ns, a, b>> : ns \in {NsMatches, NsWWPMatches},
                          a \in PartStrings, b \in PartStrings}
    \cup {<<ns, a, b, c>> : ns \in {NsRankings, NsWWPRankings},
                             a \in PartStrings, b \in PartStrings,
                             c \in {<<"1">>, <<"_">>}}

InitKey ==
    /\ InitProcess
    /\ calls \in KeyCalls \X KeyCalls
    /\ rankings = DatasetB
    /\ wwp_rankings = DatasetB

DeriveKeys ==
    /\ digests = <<>>
    /\ digests' = [i \in 1..2 |->
                       [hashed |-> key_string(calls[i]),
                        key |-> cache_key_generator(calls[i])]]
    /\ UNCHANGED <<CACHE, now, storeHist, calls, files, procs>>

NextKey == DeriveKeys

SpecKey == InitKey /\ [][NextKey]_vars

(***************************************************************************)
(* Claims about the cache functions, checked under SpecStore.              *)
(***************************************************************************)

\* C1: a get(k) at time t, when the latest put(k, v) happened at time T and
\* the entry was not evicted or cleared since, returns v if t - T < ttl and
\* absent if t - T >= ttl; and whatever a get serves is the value of a
\* latest put that is younger than ttl.
C1_TtlBoundary ==
    last.op = "get" =>
        LET p == puts[last.key]
        IN  /\ p.set /\ now - p.T < CACHE_TTL => last.ret = p.v
            /\ p.set /\ now - p.T >= CACHE_TTL => last.ret = None
            /\ last.ret # None => p.set /\ now - p.T < CACHE_TTL /\ last.ret = p.v

\* a get at T + ttl - 1, later than T, that returns the value put at T
C1_Witness ==
    /\ last.op = "get"
    /\ puts[last.key].set
    /\ now - puts[last.key].T = CACHE_TTL - 1
    /\ now > puts[last.key].T
    /\ last.ret = puts[last.key].v

\* a get at T + ttl of an entry still in the dict, which returns absent
C1_WitnessExpired ==
    /\ last.op = "get"
    /\ puts[last.key].set
    /\ now - puts[last.key].T = CACHE_TTL
    /\ last.ret = None

\* C2: after every completed call of get, put or clear, starting from the
\* empty store, the dict holds at most CACHE_MAX_SIZE entries.
C2_CapacityBound == Len(CACHE) <= CACHE_MAX_SIZE

\* a put into a full store has just evicted, and the store is full again
C2_Witness ==
    /\ last.op = "put"
    /\ last.victim # <<>>
    /\ Len(CACHE) = CACHE_MAX_SIZE

MinTimestamp(c, key) ==
    /\ Has(c, key)
    /\ \A j \in 1..Len(c) : c[j].timestamp >= Lookup(c, key).timestamp

Range(s) == {s[i] : i \in 1..Len(s)}

\* C3: a put that evicts removes exactly one entry, one whose timestamp is
\* minimal among the entries present before the put, and leaves the others
\* as they were; and after capacity + 1 puts of distinct keys into the empty
\* store exactly capacity entries remain, all but the first-inserted key.
C3_EvictsOldest ==
    [][ /\ \A k \in StoreKeys, v \in StoreVals :
               PutOp(k, v) =>
                   /\ Cardinality(Keys(CACHE) \ Keys(CACHE')) <= 1
                   /\ \A x \in Keys(CACHE) \ Keys(CACHE') : MinTimestamp(CACHE, x)
                   /\ last'.victim # <<>> =>
                          /\ MinTimestamp(CACHE, last'.victim[1])
                          /\ Del(CACHE', k) = Del(Del(CACHE, last'.victim[1]), k)
        /\ run'.clean /\ Len(run'.keys) = CACHE_MAX_SIZE + 1 =>
               /\ Len(CACHE') = CACHE_MAX_SIZE
               /\ Keys(CACHE') = Range(run'.keys) \ {run'.keys[1]}
      ]_vars

\* capacity + 1 distinct keys were put into the empty store
C3_Witness ==
    /\ run.clean
    /\ Len(run.keys) = CACHE_MAX_SIZE + 1
    /\ last.op = "put"
    /\ last.victim = <<run.keys[1]>>

\* C4: a put evicts only if the store is full and the key is not already
\* present; a put of a key already present in a full store overwrites that
\* key and leaves every other entry in the store.
C4_EvictOnlyIfAbsent ==
    [][ \A k \in StoreKeys, v \in StoreVals :
            PutOp(k, v) =>
                /\ last'.victim # <<>> => IsFull(CACHE) /\ ~Has(CACHE, k)
                /\ Has(CACHE, k) =>
                       /\ Lookup(CACHE', k).data = v
                       /\ Lookup(CACHE', k).timestamp = now
                       /\ Del(CACHE', k) = Del(CACHE, k)
      ]_vars

(***************************************************************************)
(* Claims about key derivation, checked under SpecKey.                     *)
(***************************************************************************)

\* C8: two requests that differ in namespace or in their ordered list of
\* parameter strings (also when a parameter holds the separator) hash
\* different strings and get different keys; identical namespace and
\* parameters get the same key.
C8_KeyInjective ==
    digests # <<>> =>
        /\ calls[1] # calls[2] =>
               /\ digests[1].hashed # digests[2].hashed
               /\ digests[1].key # digests[2].key
        /\ calls[1] = calls[2] => digests[1].key = digests[2].key

(***************************************************************************)
(* SpecSeq: one worker handles one request after the other, on either pair *)
(* of ranking files.                                                        *)
(***************************************************************************)
Comma == <<",">>

\* the requests the single worker receives
Requests ==
    { Rankings("MWP", TeamA \o Comma \o TeamB, D0105, D0110),
      Rankings("MWP", TeamA, D0106, D0109),
      Rankings("MWP", <<" ">> \o TeamB \o <<" ">> \o Comma \o <<"C">>, D0105, D0110),
      Rankings("MWP", <<>>, D0105, D0110),
      Rankings("MWP", TeamA \o <<"_","9">>, D0105, D0110),
      Rankings("MWP", TeamA, <<"9","_">> \o D0105, D0110),
      Rankings("MWP", TeamA, D0105, <<"x">>),
      Rankings("WWP", TeamA \o Comma \o TeamB, D0105, D0110),
      Rankings("WWP", TeamA, <<"x">>, D0110),
      Matches("MWP", <<"3">>, <<"9">>),
      Matches("MWP", <<"9">>, <<"3">>),
      Matches("MWP", <<"x">>, <<"9">>),
      Matches("WWP", <<"9">>, <<"3">>),
      Matches("WWP", <<"3">>, <<"9">>),
      Matrix("MWP"),
      Matrix("WWP"),
      AdminRequest("health"),
      AdminRequest("info"),
      AdminRequest("clear") }

InitSeq ==
    /\ InitProcess
    /\ calls = <<>>
    /\ \E f \in RankingFiles : rankings = f[1] /\ wwp_rankings = f[2]

NextSeq ==
    \/ ClockTick
    \/ \E r \in Requests : Start(1, r) \/ Admin(1, r)
    \/ HandlerStep(1)

SpecSeq == InitSeq /\ [][NextSeq]_vars

(***************************************************************************)
(* Claims about concurrent workers, checked under Spec.                    *)
(***************************************************************************)
AllIdle == \A w \in Workers : pc[w] = "idle"

\* C5: with two workers executing set_cache concurrently, once their
\* inserts have completed the dict holds at most CACHE_MAX_SIZE entries.
C5_ConcurrentCapacity == AllIdle => Len(CACHE) <= CACHE_MAX_SIZE

\* the lines of get_from_cache and set_cache that raise when another worker
\* has removed the key they rely on
RaceLines == {65, 70, 78, 79}

\* C6: under any interleaving, no request fails because a key it saw in
\* the dict, or chose as the eviction victim, was removed by another worker.
C6_NoRaceFailure ==
    \A w \in Workers :
        resp[w].status = 500 => resp[w].body.error.line \notin RaceLines

\* the payload a request computes when its try block succeeds
IsPayloadOf(data, key, r) ==
    /\ r.ep \in Cacheable
    /\ cache_key_generator(KeyArgs(r)) = key
    /\ \E db_ok \in BOOLEAN :
          LET result == Compute(r, rankings, wwp_rankings, db_ok)
          IN  result.ok /\ result.data = data

\* C7: a request that ends in a failure response has not written to the
\* dict, and every entry of the dict holds the successful payload of a
\* request with that key.
C7_NoErrorCached ==
    /\ \A w \in Workers : resp[w].status = 500 => ~loc[w].wrote
    /\ \A i \in 1..Len(CACHE) :
           \E r \in ConcRequests : IsPayloadOf(CACHE[i].data, CACHE[i].key, r)

\* a request has failed in its try block, on each kind of failure in turn,
\* while the dict holds entries
C7_Witness ==
    /\ Len(CACHE) > 0
    /\ resp[1].status = 500
    /\ resp[1].body.error.line = 146
    /\ resp[2].status = 500
    /\ resp[2].body.error.line \in {142, 181}

(***************************************************************************)
(* Claims about the handlers, checked under SpecSeq.                       *)
(***************************************************************************)
BadDate(s) == ~strptime_ymd(s).ok

\* C9: a ranking-history request whose startDate or endDate is no
\* YYYY-MM-DD date ends in a 500 response, whatever the cache holds.
C9_BadDateFails ==
    \A w \in Workers :
        /\ req[w].ep = "rankings"
        /\ resp[w].status # 0
        /\ BadDate(req[w].args[2]) \/ BadDate(req[w].args[3])
        => resp[w].status = 500

\* the dataset a ranking-history request reads
DatasetOf(r) == IF r.sport = "MWP" THEN rankings ELSE wwp_rankings

WellFormed(dataset) ==
    \A i \in 1..Len(dataset) : strptime_mdy(Split(dataset[i].label, "-")[1]).ok

\* date a is not after date b
DateLE(a, b) ==
    \/ a.y < b.y
    \/ a.y = b.y /\ a.m < b.m
    \/ a.y = b.y /\ a.m = b.m /\ a.d <= b.d

\* the entries (group i, position j) of the dataset that the request asks
\* for: the group's date within [start, end], the team among the requested
MatchingEntries(r) ==
    LET dataset == DatasetOf(r)
        wanted == Range(team_list_of(r.args[1]))
        start == strptime_ymd(r.args[2])
        end == strptime_ymd(r.args[3])
    IN  {p \in UNION {{<<i, j>> : j \in 1..Len(dataset[i].list)} : i \in 1..Len(dataset)} :
            LET d == strptime_mdy(Split(dataset[p[1]].label, "-")[1])
            IN  /\ DateLE(start, d) /\ DateLE(d, end)
                /\ dataset[p[1]].list[p[2]].team_name \in wanted}

\* the row of a dataset entry
RowOf(r, p) ==
    LET g == DatasetOf(r)[p[1]]
    IN  [team_name |-> g.list[p[2]].team_name,
         date |-> strftime_ymd(strptime_mdy(Split(g.label, "-")[1])),
         rank |-> g.list[p[2]].ranking]

\* the freshly computed payload a worker is about to store
FreshHistory(w) ==
    /\ req[w].ep = "rankings"
    /\ pc[w] \in {"set_len", "set_min", "set_del", "set_put"}

\* C10: a freshly computed ranking history holds exactly one row for every
\* dataset entry whose group date lies in [startDate, endDate], bounds
\* included and the label's suffix ignored, and whose team is requested,
\* and no other row; and a valid request on a well-formed dataset never
\* fails, also when a requested team has no entry in range.
C10_HistoryRows ==
    \A w \in Workers :
        /\ FreshHistory(w) =>
               LET rows == loc[w].result_data.data
                   entries == MatchingEntries(req[w])
               IN  /\ Len(rows) = Cardinality(entries)
                   /\ loc[w].result_data.count = Cardinality(entries)
                   /\ \A p \in entries :
                          Cardinality({i \in 1..Len(rows) : rows[i] = RowOf(req[w], p)})
                              = Cardinality({q \in entries : RowOf(req[w], q) = RowOf(req[w], p)})
                   /\ \A i \in 1..Len(rows) : \E p \in entries : rows[i] = RowOf(req[w], p)
        /\ req[w].ep = "rankings" /\ resp[w].status = 500 =>
               \/ BadDate(req[w].args[2]) \/ BadDate(req[w].args[3])
               \/ ~WellFormed(DatasetOf(req[w]))

\* a fresh history with a row on the start date and a row on the end date,
\* for a request that also names a team without any row
C10_Witness ==
    /\ FreshHistory(1)
    /\ LET rows == loc[1].result_data.data
           teams == loc[1].result_data.teams
       IN  /\ \E i \in 1..Len(rows) : rows[i].date = req[1].args[2]
           /\ \E i \in 1..Len(rows) : rows[i].date = req[1].args[3]
           /\ req[1].args[2] # req[1].args[3]
           /\ \E t \in 1..Len(teams) : \A i \in 1..Len(rows) : rows[i].team_name # teams[t]

\* the rows a request emits at index.py:196, in the order the loop emits them
Emitted(r) ==
    History(DatasetOf(r), team_list_of(r.args[1]),
            strptime_ymd(r.args[2]), strptime_ymd(r.args[3])).rows

SameSortKey(a, b) == a.date = b.date /\ a.team_name = b.team_name

\* C11: the rows of a freshly computed ranking history are in ascending
\* order of date and, within a date, of team name, whatever the order of
\* the dataset's groups; rows with the same date and team name stand in
\* the order in which they were emitted.
C11_SortedStable ==
    \A w \in Workers :
        FreshHistory(w) =>
            LET rows == loc[w].result_data.data
            IN  /\ \A i \in 1..Len(rows), j \in 1..Len(rows) :
                       i < j =>
                           /\ Ordinal(strptime_ymd(rows[i].date))
                                  <= Ordinal(strptime_ymd(rows[j].date))
                           /\ rows[i].date = rows[j].date =>
                                  ~StrLess(rows[j].team_name, rows[i].team_name)
                /\ \A k \in 1..Len(rows) :
                       SelectSeq(rows, LAMBDA x : SameSortKey(x, rows[k]))
                           = SelectSeq(Emitted(req[w]), LAMBDA x : SameSortKey(x, rows[k]))

\* a fresh history whose rows were emitted out of order and hold two
\* different rows with the same date and team name
C11_Witness ==
    /\ FreshHistory(1)
    /\ LET rows == loc[1].result_data.data
       IN  /\ rows # Emitted(req[1])
           /\ \E i \in 1..Len(rows), j \in 1..Len(rows) :
                  i < j /\ SameSortKey(rows[i], rows[j]) /\ rows[i] # rows[j]

\* the entry the dict holds under the key of worker w's request
Stored(w) == Lookup(CACHE, loc[w].cache_key)

\* C12: handling one request at a time, a lookup that finds an unexpired
\* entry ends the request with the stored value, without computing and
\* without changing the dict; the try block computes only when the dict
\* holds no entry for the key; and a computed value is stored under the key
\* with the current time and is the body of the response.  So a repeated
\* request finds the entry and is answered from it while it is unexpired.
C12_HitOrCompute ==
    [][ /\ pc[1] = "get_in" /\ pc'[1] # "get_in" /\ Has(CACHE, loc[1].cache_key)
               => pc'[1] = "get_read"
        /\ pc[1] = "get_read" /\ pc'[1] # "get_read"
               => /\ pc'[1] = "get_ttl"
                  /\ loc'[1].entry.data = Stored(1).data
                  /\ loc'[1].entry.timestamp = Stored(1).timestamp
        /\ pc[1] = "get_ttl" /\ pc'[1] # "get_ttl"
               => /\ Has(CACHE, loc[1].cache_key)
                  /\ IF now - Stored(1).timestamp < CACHE_TTL
                     THEN /\ pc'[1] = "idle"
                          /\ resp'[1] = Cached200(Stored(1).data)
                          /\ CACHE' = CACHE
                     ELSE pc'[1] = "get_del"
        /\ pc[1] = "compute" => ~Has(CACHE, loc[1].cache_key)
        /\ pc[1] = "set_put" /\ pc'[1] # "set_put"
               => /\ Has(CACHE', loc[1].cache_key)
                  /\ Lookup(CACHE', loc[1].cache_key).data = loc[1].result_data
                  /\ Lookup(CACHE', loc[1].cache_key).timestamp = now
                  /\ resp'[1] = Cached200(loc[1].result_data)
                  /\ \E db_ok \in BOOLEAN :
                        Compute(req[1], rankings, wwp_rankings, db_ok)
                            = Success(loc[1].result_data)
      ]_vars

\* a request was answered from an entry stored at an earlier time, without
\* a write of its own
C12_Witness ==
    /\ pc[1] = "idle"
    /\ req[1].ep \in Cacheable
    /\ resp[1].status = 200
    /\ ~loc[1].wrote
    /\ Has(CACHE, cache_key_generator(KeyArgs(req[1])))
    /\ resp[1].body = Lookup(CACHE, cache_key_generator(KeyArgs(req[1]))).data
    /\ now > Lookup(CACHE, cache_key_generator(KeyArgs(req[1]))).timestamp

\* the aggregate document a matches request reads
DocOf(r) == IF r.sport = "MWP" THEN matches_col[1] ELSE wwp_matches_col[1]

\* a matches request whose ranks are written as plain positive numbers
PlainRanks(r) ==
    /\ r.ep = "matches"
    /\ \A i \in 1..2 : Len(r.args[i]) > 0 /\ AllDigits(r.args[i]) /\ NatOf(r.args[i]) >= 1

\* "{r-1}_{c-1}" for ranks r and c
ZeroBasedKey(r, c) == NatToStr(NatOf(r) - 1) \o <<"_">> \o NatToStr(NatOf(c) - 1)

C13_WitnessFound ==
    /\ pc[1] = "set_len"
    /\ PlainRanks(req[1])
    /\ loc[1].result_data.count = 2

\* C14: every response with status 200, of the cached endpoints and of
\* health, cache info and cache clear alike, carries the Cache-Control
\* header and the ETag.
C14_HeadersOnEvery200 ==
    \A w \in Workers : resp[w].status = 200 => resp[w].cache_headers

\* C15: a ranking-history request whose team-name string is empty and whose
\* dates are valid is answered 200 with zero rows, on every dataset.
C15_EmptyTeamsNoRows ==
    \A w \in Workers :
        /\ req[w].ep = "rankings"
        /\ req[w].args[1] = <<>>
        /\ ~BadDate(req[w].args[2]) /\ ~BadDate(req[w].args[3])
        /\ resp[w].status # 0
        => /\ resp[w].status = 200
           /\ resp[w].body.count = 0
           /\ resp[w].body.data = <<>>

\* C16: a get(key) changes the dict in one case only, when key is present
\* and its entry has reached the TTL: then it removes exactly that entry.
\* On a miss and on a hit the dict is left as it was, keys, values,
\* timestamps and order, so a read never postpones expiry or eviction.
C16_GetFrame ==
    [][ \A k \in StoreKeys :
            GetOp(k) =>
                IF Has(CACHE, k) /\ now - Lookup(CACHE, k).timestamp >= CACHE_TTL
                THEN /\ Keys(CACHE') = Keys(CACHE) \ {k}
                     /\ Len(CACHE') = Len(CACHE) - 1
                     /\ \A i \in 1..Len(CACHE') : \E j \in 1..Len(CACHE) : CACHE'[i] = CACHE[j]
                     /\ \A i \in 1..Len(CACHE'), j \in 1..Len(CACHE') :
                            i < j => IndexOf(CACHE, CACHE'[i].key) < IndexOf(CACHE, CACHE'[j].key)
                ELSE CACHE' = CACHE
      ]_vars

\* a get has just served an entry that was stored at an earlier time and
\* is not alone in the dict
C16_Witness ==
    /\ last.op = "get"
    /\ last.ret # None
    /\ Len(CACHE) = CACHE_MAX_SIZE
    /\ Lookup(CACHE, last.key).timestamp < now

\* a get has just removed an expired entry and left another one
C16_WitnessExpired ==
    /\ last.op = "get"
    /\ puts[last.key].set
    /\ ~Has(CACHE, last.key)
    /\ Len(CACHE) > 0

\* C17: a ranking-history request with valid dates succeeds also when the
\* dataset holds a group whose label is no month/day/year date: the group
\* is skipped, and the response is never a failure.
C17_MalformedSkipped ==
    \A w \in Workers :
        /\ req[w].ep = "rankings"
        /\ ~BadDate(req[w].args[2]) /\ ~BadDate(req[w].args[3])
        /\ resp[w].status # 0
        => resp[w].status = 200

\* C18: the payload of every 200 response of the matches and
\* ranking-history endpoints, whatever requests came before, is the payload
\* the same request computes on a miss.
C18_CacheTransparent ==
    \A w \in Workers :
        req[w].ep \in {"matches", "rankings"} /\ resp[w].status = 200 =>
            \E db_ok \in BOOLEAN :
                Compute(req[w], rankings, wwp_rankings, db_ok) = Success(resp[w].body)

\* the lines of a handler from a cache miss up to the write of set_cache
AfterMiss == {"compute", "set_len", "set_min", "set_del", "set_put"}

\* C19: handling one request at a time, from the miss of get_from_cache up
\* to the write at the end of set_cache the dict holds no entry for the
\* request's key, so the write adds a key and never overwrites one; and
\* set_cache chooses a victim only while the dict holds CACHE_MAX_SIZE
\* other keys.
C19_PutOfAbsentKey ==
    \A w \in Workers :
        /\ pc[w] \in AfterMiss => ~Has(CACHE, loc[w].cache_key)
        /\ pc[w] \in {"set_min", "set_del"} => Len(CACHE) = CACHE_MAX_SIZE
        /\ pc[w] = "set_del" =>
               Has(CACHE, loc[w].oldest) /\ loc[w].oldest # loc[w].cache_key

\* a request is about to write its key after its lookup has found and
\* removed the expired entry of that key
C19_Witness ==
    /\ pc[1] = "set_put"
    /\ loc[1].entry.data # None
    /\ Len(CACHE) > 0

\* a request is about to write its key after set_cache has evicted
C19_WitnessEvicted ==
    /\ pc[1] = "set_put"
    /\ loc[1].oldest # NoLocals.oldest
    /\ Len(CACHE) = CACHE_MAX_SIZE - 1

\* an entry that get_from_cache would no longer serve at time t
Expired(e, t) == t - e.timestamp >= CACHE_TTL

\* C20: whenever set_cache evicts while the dict holds an expired entry,
\* the entry it removes is an expired one; an unexpired entry is evicted
\* only when no entry of the dict is expired.
C20_EvictsExpiredFirst ==
    [][ \A k \in StoreKeys, v \in StoreVals :
            PutOp(k, v) =>
                \A x \in Keys(CACHE) \ Keys(CACHE') :
                    (\E i \in 1..Len(CACHE) : Expired(CACHE[i], now))
                        => Expired(Lookup(CACHE, x), now)
      ]_vars

\* a put has just evicted an expired entry and kept an older, unexpired one
C20_Witness ==
    /\ last.op = "put"
    /\ last.victim # <<>>
    /\ now - last.victim_at[1] >= CACHE_TTL
    /\ \E i \in 1..Len(CACHE) :
           /\ CACHE[i].key # last.key
           /\ CACHE[i].timestamp < now
           /\ now - CACHE[i].timestamp < CACHE_TTL

====
